---- MODULE Spec2Model ----
(***************************************************************************)
(* A model of the AI-Tutor orchestrator: ask_gemini's retry loop, the      *)
(* extraction of the first JSON object from the model text, the schema     *)
(* validation of the tool decision, the deterministic inference of missing *)
(* parameters, the post-merge defaulting and the tool dispatch with its    *)
(* mock fallback.                                                          *)
(*                                                                         *)
(* Text is modelled at two grains.  The user message is a sequence of word *)
(* tokens (a punctuation token is attached to the word before it); the     *)
(* mastery summary, the teaching style and the raw text scanned by         *)
(* extract_first_json are sequences of one-character strings.              *)
(***************************************************************************)
EXTENDS Integers, Sequences, FiniteSets, TLC

VARIABLES
    pc,            \* position of the request in the pipeline
    message,       \* user message: sequence of word tokens
    user_context,  \* function from the present context keys to character sequences
    attempts,      \* ask_gemini: attempts made so far
    failures,      \* ask_gemini: attempts that raised
    last_outcome,  \* ask_gemini: what the latest attempt received
    posted,        \* ask_gemini: the body of every POST made so far
    last_exc,      \* ask_gemini: last_exc
    raw,           \* the text ask_gemini returned
    tool_name,     \* the tool of the decision
    parameters,    \* the parameter mapping (function from present keys to values)
    model_params,  \* the parameter mapping as the model gave it
    inferred,      \* TRUE when the decision went through _infer_missing_parameters
    error,         \* the error the request ended in
    result,        \* what execute_tool returned
    tool_calls,    \* number of calls of execute_tool
    tool_posts,    \* outcomes of the POSTs execute_tool made
    text,          \* _extract_first_json: the text scanned
    embedded,      \* _extract_first_json: the object whose serialization the text embeds
    scan           \* _extract_first_json: i, start, stack and the outcome

vars == <<pc, message, user_context, attempts, failures, last_outcome, posted, last_exc,
          raw, tool_name, parameters, model_params, inferred, error, result, tool_calls,
          tool_posts, text, embedded, scan>>

----------------------------------------------------------------------------
(* JSON values.  Every value is a record of one shape so that any two      *)
(* values can be compared: t is the JSON type, s the string (a sequence of *)
(* words), n the integer, b the boolean.                                   *)

StrVal(w)  == [t |-> "string",  s |-> w,    n |-> 0, b |-> FALSE]
IntVal(i)  == [t |-> "integer", s |-> <<>>, n |-> i, b |-> FALSE]
BoolVal(x) == [t |-> "boolean", s |-> <<>>, n |-> 0, b |-> x]
None    == [t |-> "null",    s |-> <<>>, n |-> 0, b |-> FALSE]
Object(name) == [t |-> "object", s |-> <<name>>, n |-> 0, b |-> FALSE]
Array(name)  == [t |-> "array",  s |-> <<name>>, n |-> 0, b |-> FALSE]

EmptyParams == [k \in {} |-> None]

\* dict.get(key, default)
Get(d, k, default) == IF k \in DOMAIN d THEN d[k] ELSE default

\* d[key] = v
Put(d, k, v) == [x \in DOMAIN d \cup {k} |-> IF x = k THEN v ELSE d[x]]

\* the variant that assigns whether or not the key is there
SetDefaultOverwrites(d, k, v) == [x \in DOMAIN d \cup {k} |-> IF x = k THEN v ELSE d[x]]

\* d.setdefault(key, v)
SetDefault(d, k, v) == IF k \in DOMAIN d THEN d ELSE Put(d, k, v)

\* {k: v for k, v in d.items() if k in keys}
Restrict(d, keys) == [x \in DOMAIN d \cap keys |-> d[x]]

----------------------------------------------------------------------------
(* TOOL_PARAM_SCHEMAS and jsonschema's validate against it.                *)

StringSchema  == [type |-> "string",  enum |-> {}, ranged |-> FALSE, minimum |-> 0, maximum |-> 0]
BooleanSchema == [type |-> "boolean", enum |-> {}, ranged |-> FALSE, minimum |-> 0, maximum |-> 0]
EnumSchema(values) == [type |-> "string", enum |-> values, ranged |-> FALSE, minimum |-> 0, maximum |-> 0]
IntegerSchema(lo, hi) == [type |-> "integer", enum |-> {}, ranged |-> TRUE, minimum |-> lo, maximum |-> hi]

TOOL_PARAM_SCHEMAS ==
    [note_maker |->
       [required |-> {"topic", "subject", "note_taking_style"},
        properties |->
          [topic |-> StringSchema,
           subject |-> StringSchema,
           note_taking_style |-> EnumSchema({<<"outline">>, <<"bullet_points">>,
                                             <<"narrative">>, <<"structured">>}),
           include_examples |-> BooleanSchema,
           include_analogies |-> BooleanSchema]],
     flashcard_generator |->
       [required |-> {"topic", "count", "difficulty", "subject"},
        properties |->
          [topic |-> StringSchema,
           count |-> IntegerSchema(1, 20),
           difficulty |-> EnumSchema({<<"easy">>, <<"medium">>, <<"hard">>}),
           include_examples |-> BooleanSchema,
           subject |-> StringSchema]],
     concept_explainer |->
       [required |-> {"concept_to_explain", "current_topic", "desired_depth"},
        properties |->
          [concept_to_explain |-> StringSchema,
           current_topic |-> StringSchema,
           desired_depth |-> EnumSchema({<<"basic">>, <<"intermediate">>,
                                         <<"advanced">>, <<"comprehensive">>}),
           include_examples |-> BooleanSchema]]]

Tools == DOMAIN TOOL_PARAM_SCHEMAS

Required(tool) == TOOL_PARAM_SCHEMAS[tool].required

Properties(tool) == DOMAIN TOOL_PARAM_SCHEMAS[tool].properties

\* one value against one property schema: type, enum, minimum, maximum
ValueConforms(v, sch) ==
    /\ v.t = sch.type
    /\ sch.enum # {} => v.s \in sch.enum
    /\ sch.ranged => (sch.minimum <= v.n /\ v.n <= sch.maximum)

\* the same validator with the range keywords forgotten
ValidateNoRange(tool, instance) ==
    /\ Required(tool) \subseteq DOMAIN instance
    /\ \A k \in DOMAIN instance \cap Properties(tool) :
          LET sch == TOOL_PARAM_SCHEMAS[tool].properties[k]
          IN  instance[k].t = sch.type /\ (sch.enum # {} => instance[k].s \in sch.enum)

\* validate(instance=..., schema=TOOL_PARAM_SCHEMAS[tool]) does not raise:
\* required keys present, every declared property that is present conforms,
\* undeclared keys are allowed
Validate(tool, instance) ==
    /\ Required(tool) \subseteq DOMAIN instance
    /\ \A k \in DOMAIN instance \cap Properties(tool) :
          ValueConforms(instance[k], TOOL_PARAM_SCHEMAS[tool].properties[k])

----------------------------------------------------------------------------
(* Character-level helpers: str.lower, re.search(r"(\d+)"), str.split, int *)

Digits == {"0", "1", "2", "3", "4", "5", "6", "7", "8", "9"}

DigitValue(c) ==
    CASE c = "0" -> 0 [] c = "1" -> 1 [] c = "2" -> 2 [] c = "3" -> 3 [] c = "4" -> 4
      [] c = "5" -> 5 [] c = "6" -> 6 [] c = "7" -> 7 [] c = "8" -> 8 [] c = "9" -> 9

\* int() of a non-empty run of decimal digits
RECURSIVE DigitsToInt(_)
DigitsToInt(run) ==
    IF run = <<>> THEN 0
    ELSE 10 * DigitsToInt(SubSeq(run, 1, Len(run) - 1)) + DigitValue(run[Len(run)])

AllDigits(run) == run # <<>> /\ \A i \in DOMAIN run : run[i] \in Digits

\* str.lower on the letters the model's styles use
LowerChar(c) ==
    CASE c = "V" -> "v" [] c = "I" -> "i" [] c = "S" -> "s" [] c = "U" -> "u"
      [] c = "A" -> "a" [] c = "L" -> "l" [] OTHER -> c

Lower(s) == [i \in DOMAIN s |-> LowerChar(s[i])]

\* str.split(): the maximal runs of non-blank characters
RECURSIVE SplitFrom(_, _, _)
SplitFrom(s, i, cur) ==
    IF i > Len(s) THEN (IF cur = <<>> THEN <<>> ELSE <<cur>>)
    ELSE IF s[i] = " "
         THEN (IF cur = <<>> THEN <<>> ELSE <<cur>>) \o SplitFrom(s, i + 1, <<>>)
         ELSE SplitFrom(s, i + 1, Append(cur, s[i]))

Split(s) == SplitFrom(s, 1, <<>>)

\* m = re.search(r"(\d+)", s); m.group(1): the first maximal run of digits
FirstDigitRun(s) ==
    LET starts == {i \in DOMAIN s : s[i] \in Digits}
    IN  IF starts = {} THEN <<>>
        ELSE LET b == CHOOSE i \in starts : \A j \in starts : i <= j
                 e == CHOOSE i \in b..Len(s) :
                         /\ \A j \in b..i : s[j] \in Digits
                         /\ (i = Len(s) \/ s[i + 1] \notin Digits)
             IN  SubSeq(s, b, e)

\* the single-digit variant: only the first digit is read
get_mastery_level_first_digit(ctx) ==
    LET run == FirstDigitRun(Get(ctx, "mastery_level_summary", <<>>))
    IN  IF run = <<>> THEN 4 ELSE DigitValue(run[1])

get_mastery_level_int(ctx) ==
    LET run == FirstDigitRun(Get(ctx, "mastery_level_summary", <<>>))
    IN  IF run = <<>> THEN 4 ELSE DigitsToInt(run)

\* int(user_context.get("mastery_level_summary", "Level 4").split()[1]), 4 on
\* any exception (no second token, or a second token int() rejects)
defaults_mastery_level(ctx) ==
    IF "mastery_level_summary" \notin DOMAIN ctx THEN 4
    ELSE LET toks == Split(ctx["mastery_level_summary"])
         IN  IF Len(toks) < 2 THEN 4
             ELSE IF AllDigits(toks[2]) THEN DigitsToInt(toks[2]) ELSE 4

\* the comparison without .lower()
IsVisualCaseSensitive(ctx) ==
    Get(ctx, "preferred_teaching_style", <<>>) = <<"v", "i", "s", "u", "a", "l">>

\* user_context.get("preferred_teaching_style", "").lower() == "visual"
IsVisual(ctx) ==
    Lower(Get(ctx, "preferred_teaching_style", <<>>)) = <<"v", "i", "s", "u", "a", "l">>

----------------------------------------------------------------------------
(* _extract_candidates_for_concept on word tokens.                         *)

Punctuation == {"?", ".", ",", "!"}

\* tokens the capture class [A-Za-z0-9 _\-/] runs through
PlainWord(w) == w \notin Punctuation \cup {"what's"}

LowerWord(w) ==
    CASE w = "Explain" -> "explain" [] w = "I" -> "i" [] OTHER -> w

LowerWords(msg) == [i \in DOMAIN msg |-> LowerWord(msg[i])]

\* the phrase each pattern looks for, in the order of the list `patterns`
Patterns ==
    << {<<"explain">>},
       {<<"what's">>, <<"what", "is">>, <<"what", "are">>},
       {<<"tell", "me", "about">>},
       {<<"struggling", "with">>},
       {<<"practice", "problems", "on">>, <<"practice", "problems", "for">>},
       {<<"need", "help", "with">>, <<"need", "help", "on">>,
        <<"need", "practice", "with">>, <<"need", "practice", "on">>} >>

\* the phrase stands at position i and a capturable word follows it
PhraseAt(lower, i, phrase) ==
    /\ i + Len(phrase) <= Len(lower)
    /\ \A j \in DOMAIN phrase : lower[i + j - 1] = phrase[j]
    /\ PlainWord(lower[i + Len(phrase)])

\* positions where re.search(pat, lower) can match
MatchStarts(lower, pat) ==
    {i \in DOMAIN lower : \E phrase \in pat : PhraseAt(lower, i, phrase)}

\* m.group(1) of the leftmost match: the run of capturable words after the phrase
Capture(lower, pat) ==
    LET i == CHOOSE x \in MatchStarts(lower, pat) : \A y \in MatchStarts(lower, pat) : x <= y
        phrase == CHOOSE ph \in pat : PhraseAt(lower, i, ph)
        b == i + Len(phrase)
        e == CHOOSE x \in b..Len(lower) :
                /\ \A j \in b..x : PlainWord(lower[j])
                /\ (x = Len(lower) \/ ~PlainWord(lower[x + 1]))
    IN  SubSeq(lower, b, e)

RECURSIVE PatternCandidates(_, _)
PatternCandidates(lower, k) ==
    IF k > Len(Patterns) THEN <<>>
    ELSE (IF MatchStarts(lower, Patterns[k]) = {} THEN <<>>
          ELSE <<Capture(lower, Patterns[k])>>) \o PatternCandidates(lower, k + 1)

\* positions where a whitespace-separated word of the message starts
WordStarts(msg) == {i \in DOMAIN msg : i = 1 \/ msg[i] \notin Punctuation}

\* " ".join(msg.split()[:6])
FirstSixWords(msg) ==
    LET ws == WordStarts(msg)
        cut == {i \in ws : Cardinality({j \in ws : j < i}) = 6}
    IN  IF cut = {} THEN msg
        ELSE SubSeq(msg, 1, (CHOOSE i \in cut : TRUE) - 1)

RECURSIVE Dedupe(_)
Dedupe(cs) ==
    IF cs = <<>> THEN <<>>
    ELSE LET init == Dedupe(SubSeq(cs, 1, Len(cs) - 1))
             last == cs[Len(cs)]
         IN  IF \E i \in DOMAIN init : init[i] = last THEN init ELSE Append(init, last)

extract_candidates_for_concept(msg) ==
    LET found == PatternCandidates(LowerWords(msg), 1)
    IN  Dedupe(IF found # <<>> THEN found
               ELSE IF Cardinality(WordStarts(msg)) <= 6 THEN <<msg>>
               ELSE <<FirstSixWords(msg)>>)


----------------------------------------------------------------------------
(* _infer_missing_parameters                                               *)

DepthTier(lvl) ==
    IF lvl <= 3 THEN <<"basic">> ELSE IF lvl <= 6 THEN <<"intermediate">> ELSE <<"advanced">>

DifficultyTier(lvl) ==
    IF lvl <= 3 THEN <<"easy">> ELSE IF lvl <= 6 THEN <<"medium">> ELSE <<"hard">>

\* candidates[0] if candidates else user_message
FirstCandidate(msg) ==
    LET candidates == extract_candidates_for_concept(msg)
    IN  IF candidates # <<>> THEN candidates[1] ELSE msg

\* candidates[0] if candidates else "general"
FirstCandidateOrGeneral(msg) ==
    LET candidates == extract_candidates_for_concept(msg)
    IN  IF candidates # <<>> THEN candidates[1] ELSE <<"general">>

\* one iteration of `for key in missing` in the branch of `tool`
InferKey(tool, filled, key, msg, ctx) ==
    CASE tool = "concept_explainer" ->
           (CASE key = "concept_to_explain" -> Put(filled, key, StrVal(FirstCandidate(msg)))
              [] key = "current_topic" ->
                   Put(filled, key, Get(filled, "concept_to_explain", StrVal(FirstCandidate(msg))))
              [] key = "desired_depth" ->
                   Put(filled, key, StrVal(DepthTier(get_mastery_level_int(ctx))))
              [] key = "include_examples" -> Put(filled, key, BoolVal(TRUE))
              [] OTHER -> filled)
      [] tool = "flashcard_generator" ->
           (CASE key = "topic" -> Put(filled, key, StrVal(FirstCandidate(msg)))
              [] key = "count" -> Put(filled, key, IntVal(5))
              [] key = "difficulty" ->
                   Put(filled, key, StrVal(DifficultyTier(get_mastery_level_int(ctx))))
              [] key = "subject" -> Put(filled, key, StrVal(FirstCandidateOrGeneral(msg)))
              [] key = "include_examples" -> Put(filled, key, BoolVal(TRUE))
              [] OTHER -> filled)
      [] tool = "note_maker" ->
           (CASE key = "topic" -> Put(filled, key, StrVal(FirstCandidate(msg)))
              [] key = "subject" -> Put(filled, key, StrVal(FirstCandidateOrGeneral(msg)))
              [] key = "note_taking_style" ->
                   Put(filled, key, StrVal(IF IsVisual(ctx) THEN <<"structured">>
                                           ELSE <<"outline">>))
              [] key = "include_examples" -> Put(filled, key, BoolVal(TRUE))
              [] key = "include_analogies" -> Put(filled, key, BoolVal(IsVisual(ctx)))
              [] OTHER -> filled)
      [] OTHER -> filled

\* the loop `for key in missing`, taken in the order `order`
RECURSIVE InferKeys(_, _, _, _, _)
InferKeys(tool, filled, order, msg, ctx) ==
    IF order = <<>> THEN filled
    ELSE InferKeys(tool, InferKey(tool, filled, order[1], msg, ctx), Tail(order), msg, ctx)

\* the final pass over filled.items(): a None of a declared property becomes
\* the message (string), True (boolean) or 1 (integer)
ReplaceNone(tool, filled, msg) ==
    [k \in DOMAIN filled |->
        IF filled[k] # None THEN filled[k]
        ELSE IF tool \notin Tools \/ k \notin Properties(tool) THEN filled[k]
        ELSE LET type == TOOL_PARAM_SCHEMAS[tool].properties[k].type
             IN  CASE type = "string" -> StrVal(msg)
                   [] type = "boolean" -> BoolVal(TRUE)
                   [] type = "integer" -> IntVal(1)
                   [] OTHER -> filled[k]]

\* the variant that leaves the subject of a deck of flashcards unfilled
infer_missing_parameters_no_subject(tool, order, msg, ctx, params) ==
    ReplaceNone(tool,
                InferKeys(tool, params, SelectSeq(order, LAMBDA k : k # "subject"), msg, ctx),
                msg)

infer_missing_parameters(tool, order, msg, ctx, params) ==
    ReplaceNone(tool, InferKeys(tool, params, order, msg, ctx), msg)

\* the orders in which `for key in missing` can visit a set
Orders(S) ==
    {o \in [1..Cardinality(S) -> S] : \A i, j \in 1..Cardinality(S) : i # j => o[i] # o[j]}

----------------------------------------------------------------------------
(* _infer_defaults                                                         *)

infer_defaults(params, tool, ctx) ==
    CASE tool = "flashcard_generator" ->
           SetDefault(SetDefault(params, "count", IntVal(5)),
                      "difficulty", StrVal(DifficultyTier(defaults_mastery_level(ctx))))
      [] tool = "note_maker" ->
           IF IsVisual(ctx)
           THEN SetDefault(SetDefault(SetDefault(params,
                    "note_taking_style", StrVal(<<"structured">>)),
                    "include_examples", BoolVal(TRUE)),
                    "include_analogies", BoolVal(TRUE))
           ELSE SetDefault(SetDefault(SetDefault(params,
                    "note_taking_style", Get(params, "note_taking_style", StrVal(<<"outline">>))),
                    "include_examples", BoolVal(TRUE)),
                    "include_analogies", BoolVal(FALSE))
      [] tool = "concept_explainer" ->
           SetDefault(SetDefault(params,
                    "desired_depth", StrVal(DepthTier(defaults_mastery_level(ctx)))),
                    "include_examples", BoolVal(TRUE))
      [] OTHER -> params

----------------------------------------------------------------------------
(* tool_executor: TOOL_ENDPOINTS, _mock_response                           *)

TOOL_ENDPOINTS ==
    [note_maker |-> "http://localhost:8101/note_maker",
     flashcard_generator |-> "http://localhost:8102/flashcards",
     concept_explainer |-> "http://localhost:8103/explain"]

\* int(params.get("count", 5)) raises on None, on a mapping and on a string
\* that is not a number
CountRaises(params) ==
    Get(params, "count", IntVal(5)).t \notin {"integer", "boolean"}

CountOf(params) ==
    LET c == Get(params, "count", IntVal(5))
    IN  IF c.t = "boolean" THEN (IF c.b THEN 1 ELSE 0) ELSE c.n

Min(a, b) == IF a <= b THEN a ELSE b

Max(a, b) == IF a >= b THEN a ELSE b

NoResult == [source |-> "none", tool |-> "", topic |-> None, style |-> None, cards |-> 0]

ToolResponse(tool) == [source |-> "tool", tool |-> tool, topic |-> None, style |-> None, cards |-> 0]

mock_response_raises(tool, params) == tool = "flashcard_generator" /\ CountRaises(params)

\* the fields of the mock that depend on the arguments: the topic echoed, the
\* style or difficulty echoed, the number of flashcards
mock_response(tool, params) ==
    CASE tool = "note_maker" ->
           [source |-> "mock", tool |-> tool,
            topic |-> Get(params, "topic", StrVal(<<"general">>)),
            style |-> Get(params, "note_taking_style", StrVal(<<"structured">>)),
            cards |-> 0]
      [] tool = "flashcard_generator" ->
           [source |-> "mock", tool |-> tool,
            topic |-> Get(params, "topic", StrVal(<<"general">>)),
            style |-> Get(params, "difficulty", StrVal(<<"medium">>)),
            cards |-> Max(0, Min(20, CountOf(params)))]
      [] tool = "concept_explainer" ->
           [source |-> "mock", tool |-> tool,
            topic |-> Get(params, "concept_to_explain", StrVal(<<"the", "concept">>)),
            style |-> None, cards |-> 0]
      [] OTHER ->
           [source |-> "mock", tool |-> "unknown tool", topic |-> None, style |-> None,
            cards |-> 0]


----------------------------------------------------------------------------
(* The inputs of a request.                                                *)

MAX_RETRIES == 2

Absent == [t |-> "absent", s |-> <<>>, n |-> 0, b |-> FALSE]

\* the mapping that holds the pairs <<key, value>> whose value is not Absent
FromPairs(ps) ==
    [k \in {ps[i][1] : i \in {j \in DOMAIN ps : ps[j][2] # Absent}} |->
        ps[CHOOSE i \in DOMAIN ps : ps[i][1] = k][2]]

Derivatives == StrVal(<<"derivatives">>)

Calculus == StrVal(<<"calculus">>)

NoteMakerParams ==
    {FromPairs(<< <<"topic", a>>, <<"subject", b>>, <<"note_taking_style", c>>,
                  <<"include_examples", d>>, <<"include_analogies", e>> >>) :
        a \in {Absent, Derivatives},
        b \in {Absent, Calculus, IntVal(7)},
        c \in {Absent, StrVal(<<"bullet_points">>), StrVal(<<"mindmap">>)},
        d \in {Absent, BoolVal(FALSE)},
        e \in {Absent, BoolVal(TRUE), BoolVal(FALSE), None}}

FlashcardParams ==
    {FromPairs(<< <<"topic", a>>, <<"count", b>>, <<"difficulty", c>>,
                  <<"include_examples", d>>, <<"subject", e>> >>) :
        a \in {Absent, Derivatives},
        b \in {Absent, IntVal(20), IntVal(21), None},
        c \in {Absent, StrVal(<<"easy">>), StrVal(<<"extreme">>)},
        d \in {Absent, None},
        e \in {Absent, Calculus}}

ConceptParams ==
    {FromPairs(<< <<"concept_to_explain", a>>, <<"current_topic", b>>,
                  <<"desired_depth", c>>, <<"include_examples", d>> >>) :
        a \in {Absent, Derivatives},
        b \in {Absent, Calculus, None},
        c \in {Absent, StrVal(<<"comprehensive">>), IntVal(3)},
        d \in {Absent, StrVal(<<"yes">>)}}

\* What _extract_first_json finds in the model text: nothing (json = FALSE), or
\* an object that may lack the keys "tool" and "parameters".  The value of
\* "parameters" is always an object here.
Reply(json, has_tool, has_parameters, tool, params) ==
    [json |-> json, has_tool |-> has_tool, has_parameters |-> has_parameters,
     tool |-> tool, parameters |-> params]

Replies ==
    {Reply(FALSE, FALSE, FALSE, "", EmptyParams),
     Reply(TRUE, FALSE, TRUE, "", EmptyParams),
     Reply(TRUE, TRUE, FALSE, "note_maker", EmptyParams),
     Reply(TRUE, TRUE, TRUE, "quiz_maker", FromPairs(<< <<"topic", Derivatives>> >>))}
    \cup {Reply(TRUE, TRUE, TRUE, "note_maker", q) : q \in NoteMakerParams}
    \cup {Reply(TRUE, TRUE, TRUE, "flashcard_generator", q) : q \in FlashcardParams}
    \cup {Reply(TRUE, TRUE, TRUE, "concept_explainer", q) : q \in ConceptParams}

\* json.dumps(data) of an envelope: an object without "tool" and "parameters"
EnvelopeReply == Reply(TRUE, FALSE, FALSE, "", EmptyParams)

Summaries ==
    {<<"L", "v", " ", "3">>,
     <<"L", "v", " ", "4", ":", " ", "b">>,
     <<"L", "v", " ", "6">>,
     <<"L", "v", " ", "7", ":">>,
     <<"L", "v", " ", "7">>,
     <<"L", "v", " ", "1", "0">>,
     <<"L", "v">>,
     <<"3", " ", "7">>}

Styles ==
    {<<"v", "i", "s", "u", "a", "l">>,
     <<"V", "i", "s", "u", "a", "L">>,
     <<"a", "u", "d", "i", "o">>}

NoValue == <<"<absent>">>

\* the user context with the keys that are given
Context(summary, style) ==
    [k \in (IF summary = NoValue THEN {} ELSE {"mastery_level_summary"})
           \cup (IF style = NoValue THEN {} ELSE {"preferred_teaching_style"}) |->
        IF k = "mastery_level_summary" THEN summary ELSE style]

Contexts ==
    {Context(sm, st) : sm \in Summaries \cup {NoValue}, st \in Styles \cup {NoValue}}

PipelineMessages ==
    {<<"I", "need", "practice", "problems", "on", "derivatives">>,
     <<"Explain", "derivatives", "?">>}

----------------------------------------------------------------------------
(* ask_gemini                                                              *)

\* What one POST to the model API comes to: an exception of client.post, of
\* raise_for_status or of r.json, or a decoded envelope.  Of the envelope only
\* the path candidates[0].content.parts[0].text is kept: candidates and parts
\* are a missing key, an empty list or a list with a first element; content
\* and text are a missing key or present.
Outcome(kind, candidates, content, parts, txt) ==
    [kind |-> kind, candidates |-> candidates, content |-> content, parts |-> parts,
     text |-> txt]

NoOutcome == Outcome("none", "absent", "absent", "absent", "absent")

Envelopes ==
    {Outcome("envelope", "absent", "absent", "absent", "absent"),
     Outcome("envelope", "empty", "absent", "absent", "absent"),
     Outcome("envelope", "present", "absent", "absent", "absent"),
     Outcome("envelope", "present", "present", "absent", "absent"),
     Outcome("envelope", "present", "present", "empty", "absent"),
     Outcome("envelope", "present", "present", "present", "absent"),
     Outcome("envelope", "present", "present", "present", "present")}

AttemptOutcomes ==
    {Outcome(k, "absent", "absent", "absent", "absent") :
        k \in {"ConnectError", "HTTPStatusError", "JSONDecodeError"}}
    \cup Envelopes

\* data.get("candidates", [{}])[0].get("content", {}).get("parts", [{}])[0]
\*     .get("text", json.dumps(data))
\* "text": the text of the first part; "dump": json.dumps(data); "IndexError":
\* [0] of an empty list
EnvelopeText(o) ==
    IF o.candidates = "empty" THEN "IndexError"
    ELSE LET has_content == o.candidates = "present" /\ o.content = "present"
             parts == IF has_content THEN o.parts ELSE "absent"
         IN  IF parts = "empty" THEN "IndexError"
             ELSE IF parts = "present" /\ o.text = "present" THEN "text" ELSE "dump"

\* the attempt ends in the except clause
AttemptRaises(o) == o.kind # "envelope" \/ EnvelopeText(o) = "IndexError"

\* the exception the except clause binds
Cause(o) == IF o.kind # "envelope" THEN o.kind ELSE "IndexError"

\* the prompt get_tool_decision composes, and the body ask_gemini builds once
Prompt(msg, ctx) == [message |-> msg, profile |-> ctx]

Body(prompt) == [contents |-> prompt]

\* a loop that runs one time too few
AttemptBudgetOffByOne == MAX_RETRIES

\* range(MAX_RETRIES + 1)
AttemptBudget == MAX_RETRIES + 1

NoError == [kind |-> "none", cause |-> "none"]

Failure(kind, cause) == [kind |-> kind, cause |-> cause]

NoRaw == [source |-> "none"]

\* One iteration of `for attempt in range(MAX_RETRIES + 1)`; the iteration
\* that fails last falls out of the loop into the raise.
AskGeminiAttempt ==
    /\ pc = "ask_gemini"
    /\ attempts < AttemptBudget
    /\ \E o \in AttemptOutcomes :
          /\ attempts' = attempts + 1
          /\ posted' = Append(posted, Body(Prompt(message, user_context)))
          /\ last_outcome' = o
          /\ IF AttemptRaises(o)
             THEN /\ failures' = failures + 1
                  /\ last_exc' = Cause(o)
                  /\ raw' = raw
                  /\ IF attempts + 1 < AttemptBudget
                     THEN pc' = pc /\ error' = error
                     ELSE pc' = "failed" /\ error' = Failure("MODEL_FAILED", last_exc')
             ELSE /\ raw' = [source |-> EnvelopeText(o)]
                  /\ pc' = "extract"
                  /\ UNCHANGED <<failures, last_exc, error>>
    /\ UNCHANGED <<message, user_context, tool_name, parameters, model_params, inferred,
                   result, tool_calls, tool_posts, text, embedded, scan>>

----------------------------------------------------------------------------
(* get_tool_decision                                                       *)

\* Lines 237-243: _extract_first_json(raw) and the check of the two keys.  The
\* content of the model text is drawn here, where it is first read; a dumped
\* envelope is an object without the two keys.  ask_gemini has returned: its
\* locals are gone.
ExtractDecision ==
    /\ pc = "extract"
    /\ \E reply \in (IF raw.source = "dump" THEN {EnvelopeReply} ELSE Replies) :
          IF ~reply.json
          THEN /\ pc' = "failed"
               /\ error' = Failure("NO_JSON", "ValueError")
               /\ UNCHANGED <<tool_name, parameters, model_params>>
          ELSE IF ~reply.has_tool \/ ~reply.has_parameters
          THEN /\ pc' = "failed"
               /\ error' = Failure("MISSING_KEYS", "none")
               /\ UNCHANGED <<tool_name, parameters, model_params>>
          ELSE /\ pc' = "validate_decision"
               /\ tool_name' = reply.tool
               /\ parameters' = reply.parameters
               /\ model_params' = reply.parameters
               /\ error' = error
    /\ attempts' = 0
    /\ failures' = 0
    /\ last_outcome' = NoOutcome
    /\ posted' = <<>>
    /\ last_exc' = "None"
    /\ UNCHANGED <<message, user_context, raw, inferred, result, tool_calls, tool_posts,
                   text, embedded, scan>>

\* the variant whose except clause for the model parameters does not raise again
ValidateDecisionSwallows ==
    /\ pc = "validate_decision"
    /\ IF tool_name \notin Tools
       THEN /\ pc' = "failed"
            /\ error' = Failure("UNKNOWN_TOOL", "none")
            /\ UNCHANGED <<parameters, inferred>>
       ELSE LET missing == Required(tool_name) \ DOMAIN parameters
            IN  IF missing # {}
                THEN \E order \in Orders(missing) :
                        LET filled == infer_missing_parameters(tool_name, order, message,
                                                               user_context, parameters)
                        IN  IF Validate(tool_name, filled)
                            THEN /\ pc' = "merge_context"
                                 /\ parameters' = filled
                                 /\ inferred' = TRUE
                                 /\ error' = error
                            ELSE /\ pc' = "failed"
                                 /\ error' = Failure("VALIDATION_FAILED", "after inference")
                                 /\ UNCHANGED <<parameters, inferred>>
                ELSE IF Validate(tool_name, parameters)
                     THEN /\ pc' = "merge_context"
                          /\ UNCHANGED <<parameters, inferred, error>>
                     ELSE /\ pc' = "merge_context"
                          /\ error' = Failure("VALIDATION_FAILED", "model parameters")
                          /\ UNCHANGED <<parameters, inferred>>
    /\ UNCHANGED <<message, user_context, attempts, failures, last_outcome, posted,
                   last_exc, raw, tool_name, model_params, result, tool_calls, tool_posts,
                   text, embedded, scan>>

\* Lines 245-277: the registry check, the missing required keys, the inference
\* and the validation of what is returned.
ValidateDecision ==
    /\ pc = "validate_decision"
    /\ IF tool_name \notin Tools
       THEN /\ pc' = "failed"
            /\ error' = Failure("UNKNOWN_TOOL", "none")
            /\ UNCHANGED <<parameters, inferred>>
       ELSE LET missing == Required(tool_name) \ DOMAIN parameters
            IN  IF missing # {}
                THEN \E order \in Orders(missing) :
                        LET filled == infer_missing_parameters(tool_name, order, message,
                                                               user_context, parameters)
                        IN  IF Validate(tool_name, filled)
                            THEN /\ pc' = "merge_context"
                                 /\ parameters' = filled
                                 /\ inferred' = TRUE
                                 /\ error' = error
                            ELSE /\ pc' = "failed"
                                 /\ error' = Failure("VALIDATION_FAILED", "after inference")
                                 /\ UNCHANGED <<parameters, inferred>>
                ELSE IF Validate(tool_name, parameters)
                     THEN /\ pc' = "merge_context"
                          /\ UNCHANGED <<parameters, inferred, error>>
                     ELSE /\ pc' = "failed"
                          /\ error' = Failure("VALIDATION_FAILED", "model parameters")
                          /\ UNCHANGED <<parameters, inferred>>
    /\ UNCHANGED <<message, user_context, attempts, failures, last_outcome, posted,
                   last_exc, raw, tool_name, model_params, result, tool_calls, tool_posts,
                   text, embedded, scan>>

----------------------------------------------------------------------------
(* orchestrate_with_gemini                                                 *)

\* Lines 61-69: user_info and chat_history are attached, then _infer_defaults.
MergeContext ==
    /\ pc = "merge_context"
    /\ parameters' =
          infer_defaults(Put(Put(parameters, "user_info", Object("user_context")),
                             "chat_history", Array("chat_history")),
                         tool_name, user_context)
    /\ pc' = "validate_final"
    /\ UNCHANGED <<message, user_context, attempts, failures, last_outcome, posted,
                   last_exc, raw, tool_name, model_params, inferred, error, result,
                   tool_calls, tool_posts, text, embedded, scan>>

\* the tool-scoped parameters: those whose key the tool's schema declares
ToolParams(tool, params) == Restrict(params, Properties(tool))

\* Lines 71-84: user_info must be an object, the tool-scoped parameters must
\* satisfy the tool's schema; then execute_tool is called.
ValidateFinal ==
    /\ pc = "validate_final"
    /\ IF /\ "user_info" \in DOMAIN parameters
          /\ parameters["user_info"].t = "object"
          /\ Validate(tool_name, ToolParams(tool_name, parameters))
       THEN /\ pc' = "execute_tool"
            /\ tool_calls' = tool_calls + 1
            /\ error' = error
       ELSE /\ pc' = "failed"
            /\ error' = Failure("VALIDATION_FAILED", "before calling tool")
            /\ tool_calls' = tool_calls
    /\ UNCHANGED <<message, user_context, attempts, failures, last_outcome, posted,
                   last_exc, raw, tool_name, parameters, model_params, inferred, result,
                   tool_posts, text, embedded, scan>>

----------------------------------------------------------------------------
(* execute_tool                                                            *)

\* what the one POST to the tool endpoint comes to: a decoded response, or an
\* exception of client.post, of raise_for_status or of resp.json
ToolOutcomes == {"ok", "TimeoutException", "ConnectError", "HTTPStatusError",
                 "JSONDecodeError"}

\* the variant that lets the failure of the POST escape
ExecuteToolReraises ==
    /\ pc = "execute_tool"
    /\ \E o \in ToolOutcomes :
          /\ tool_posts' = Append(tool_posts, o)
          /\ IF o = "ok"
             THEN pc' = "done" /\ result' = ToolResponse(tool_name) /\ error' = error
             ELSE pc' = "failed" /\ result' = result /\ error' = Failure("TOOL_FAILED", o)
    /\ UNCHANGED <<message, user_context, attempts, failures, last_outcome, posted,
                   last_exc, raw, tool_name, parameters, model_params, inferred,
                   tool_calls, text, embedded, scan>>

\* the variant that answers a tool without endpoint with the mock
ExecuteToolMocksUnconfigured ==
    /\ pc = "execute_tool"
    /\ IF tool_name \notin DOMAIN TOOL_ENDPOINTS
       THEN /\ pc' = "done"
            /\ error' = error
            /\ result' = mock_response(tool_name, parameters)
            /\ tool_posts' = tool_posts
       ELSE \E o \in ToolOutcomes :
               /\ tool_posts' = Append(tool_posts, o)
               /\ IF o = "ok"
                  THEN pc' = "done" /\ result' = ToolResponse(tool_name) /\ error' = error
                  ELSE IF mock_response_raises(tool_name, parameters)
                  THEN pc' = "failed" /\ result' = result /\ error' = Failure("MOCK_FAILED", o)
                  ELSE /\ pc' = "done"
                       /\ result' = mock_response(tool_name, parameters)
                       /\ error' = error
    /\ UNCHANGED <<message, user_context, attempts, failures, last_outcome, posted,
                   last_exc, raw, tool_name, parameters, model_params, inferred,
                   tool_calls, text, embedded, scan>>

\* Lines 15-28: no endpoint raises; otherwise one POST, and on any exception
\* the mock response (which raises itself when int(count) does).
ExecuteTool ==
    /\ pc = "execute_tool"
    /\ IF tool_name \notin DOMAIN TOOL_ENDPOINTS
       THEN /\ pc' = "failed"
            /\ error' = Failure("NO_ENDPOINT", tool_name)
            /\ UNCHANGED <<result, tool_posts>>
       ELSE \E o \in ToolOutcomes :
               /\ tool_posts' = Append(tool_posts, o)
               /\ IF o = "ok"
                  THEN pc' = "done" /\ result' = ToolResponse(tool_name) /\ error' = error
                  ELSE IF mock_response_raises(tool_name, parameters)
                  THEN pc' = "failed" /\ result' = result /\ error' = Failure("MOCK_FAILED", o)
                  ELSE /\ pc' = "done"
                       /\ result' = mock_response(tool_name, parameters)
                       /\ error' = error
    /\ UNCHANGED <<message, user_context, attempts, failures, last_outcome, posted,
                   last_exc, raw, tool_name, parameters, model_params, inferred,
                   tool_calls, text, embedded, scan>>

----------------------------------------------------------------------------
(* One request through orchestrate_with_gemini.                            *)

NoJson == [kind |-> "none", str |-> <<>>, members |-> <<>>]

IdleScan == [i |-> 0, start |-> 0, stack |-> 0, status |-> "idle", value |-> NoJson]

Init ==
    /\ pc = "ask_gemini"
    /\ message \in PipelineMessages
    /\ user_context \in Contexts
    /\ attempts = 0
    /\ failures = 0
    /\ last_outcome = NoOutcome
    /\ posted = <<>>
    /\ last_exc = "None"
    /\ raw = NoRaw
    /\ tool_name = ""
    /\ parameters = EmptyParams
    /\ model_params = EmptyParams
    /\ inferred = FALSE
    /\ error = NoError
    /\ result = NoResult
    /\ tool_calls = 0
    /\ tool_posts = <<>>
    /\ text = <<>>
    /\ embedded = NoJson
    /\ scan = IdleScan

Next ==
    \/ AskGeminiAttempt
    \/ ExtractDecision
    \/ ValidateDecision
    \/ MergeContext
    \/ ValidateFinal
    \/ ExecuteTool

Spec == Init /\ [][Next]_vars

----------------------------------------------------------------------------
(* _extract_first_json: JSON values, json.loads, and the scan.             *)

MaxStrLen == 1

MaxAffixLen == 1

BoundedSeq(S, n) == UNION {[1..k -> S] : k \in 0..n}

Quote == "\""

JStr(cs) == [kind |-> "string", str |-> cs, members |-> <<>>]

JObj(ms) == [kind |-> "object", str |-> <<>>, members |-> ms]

Member(k, v) == [key |-> k, val |-> v]

\* the characters of the string values: a letter and the two braces
StrChars == {"a", "{", "}"}

JStrings == {JStr(cs) : cs \in BoundedSeq(StrChars, MaxStrLen)}

InnerObjects == {JObj(<<>>)} \cup {JObj(<<Member(<<"a">>, v)>>) : v \in JStrings}

JValues == JStrings \cup InnerObjects

\* the objects J: no member, one member, two members; a value is a string or
\* a nested object
JsonObjects ==
    {JObj(<<>>)}
    \cup {JObj(<<Member(<<"a">>, v)>>) : v \in JValues}
    \cup {JObj(<<Member(<<"a">>, v), Member(<<"b">>, w)>>) : v \in JValues, w \in JValues}

\* json.dumps with its default separators
RECURSIVE Dumps(_)
RECURSIVE DumpMembers(_)
Dumps(v) ==
    IF v.kind = "string" THEN <<Quote>> \o v.str \o <<Quote>>
    ELSE <<"{">> \o DumpMembers(v.members) \o <<"}">>

DumpMembers(ms) ==
    IF Len(ms) = 0 THEN <<>>
    ELSE <<Quote>> \o ms[1].key \o <<Quote, ":", " ">> \o Dumps(ms[1].val)
         \o (IF Len(ms) > 1 THEN <<",", " ">> \o DumpMembers(Tail(ms)) ELSE <<>>)

\* json.loads on objects and strings: [ok, next, val], next the position after
\* the value
ParseFail == [ok |-> FALSE, next |-> 0, val |-> NoJson]

Parsed(next, val) == [ok |-> TRUE, next |-> next, val |-> val]

SkipWs(s, i) ==
    CHOOSE j \in i..(Len(s) + 1) :
        /\ \A k \in i..(j - 1) : s[k] = " "
        /\ (j > Len(s) \/ s[j] # " ")

ParseString(s, i) ==
    IF i > Len(s) \/ s[i] # Quote THEN ParseFail
    ELSE LET closes == {j \in (i + 1)..Len(s) : s[j] = Quote}
         IN  IF closes = {} THEN ParseFail
             ELSE LET j == CHOOSE x \in closes : \A y \in closes : x <= y
                  IN  Parsed(j + 1, JStr(SubSeq(s, i + 1, j - 1)))

\* d[key] = val while the object is built: a repeated key keeps its place and
\* takes the later value
AddMember(ms, k, v) ==
    IF \E x \in DOMAIN ms : ms[x].key = k
    THEN [x \in DOMAIN ms |-> IF ms[x].key = k THEN Member(k, v) ELSE ms[x]]
    ELSE Append(ms, Member(k, v))

RECURSIVE ParseValue(_, _)
RECURSIVE ParseMembers(_, _, _)
ParseObject(s, i) ==
    LET j == SkipWs(s, i + 1)
    IN  IF j <= Len(s) /\ s[j] = "}" THEN Parsed(j + 1, JObj(<<>>))
        ELSE ParseMembers(s, j, <<>>)

ParseValue(s, i) ==
    IF i > Len(s) THEN ParseFail
    ELSE IF s[i] = Quote THEN ParseString(s, i)
    ELSE IF s[i] = "{" THEN ParseObject(s, i)
    ELSE ParseFail

ParseMembers(s, i, acc) ==
    LET k == ParseString(s, i)
    IN  IF ~k.ok THEN ParseFail
        ELSE LET c == SkipWs(s, k.next)
             IN  IF c > Len(s) \/ s[c] # ":" THEN ParseFail
                 ELSE LET v == ParseValue(s, SkipWs(s, c + 1))
                      IN  IF ~v.ok THEN ParseFail
                          ELSE LET e == SkipWs(s, v.next)
                                   acc2 == AddMember(acc, k.val.str, v.val)
                               IN  IF e > Len(s) THEN ParseFail
                                   ELSE IF s[e] = "}" THEN Parsed(e + 1, JObj(acc2))
                                   ELSE IF s[e] = ","
                                        THEN ParseMembers(s, SkipWs(s, e + 1), acc2)
                                   ELSE ParseFail

loads(s) ==
    LET v == ParseValue(s, SkipWs(s, 1))
    IN  IF v.ok /\ SkipWs(s, v.next) > Len(s) THEN v ELSE ParseFail

\* the text around the object: no brace in it
AffixChars == {"a", " ", Quote}

Affixes == BoundedSeq(AffixChars, MaxAffixLen)

\* One iteration of `for i, ch in enumerate(text)`: sc.i characters are
\* consumed, sc.start is the index of the opening brace (0 for None), sc.stack
\* the length of the stack.  The iteration on the last character falls out of
\* the loop into the raise.
ScanStep(sc, txt) ==
    LET i == sc.i + 1
        ch == txt[i]
        done == [sc EXCEPT !.i = i, !.status = IF i = Len(txt) THEN "raised" ELSE "scanning"]
    IN  IF ch = "{"
        THEN [done EXCEPT !.start = IF sc.start = 0 THEN i ELSE sc.start,
                          !.stack = sc.stack + 1]
        ELSE IF ch = "}" /\ sc.stack > 0
        THEN IF sc.stack = 1 /\ sc.start # 0
             THEN LET r == loads(SubSeq(txt, sc.start, i))
                  IN  IF r.ok
                      THEN [sc EXCEPT !.i = i, !.stack = 0, !.status = "returned",
                                      !.value = r.val]
                      ELSE [done EXCEPT !.stack = 0, !.start = 0]
             ELSE [done EXCEPT !.stack = sc.stack - 1]
        ELSE done

PipelineIdle ==
    /\ attempts = 0
    /\ failures = 0
    /\ last_outcome = NoOutcome
    /\ posted = <<>>
    /\ last_exc = "None"
    /\ raw = NoRaw
    /\ inferred = FALSE
    /\ error = NoError
    /\ result = NoResult
    /\ tool_posts = <<>>

ExtractStep ==
    /\ pc = "extract_first_json"
    /\ scan.status = "scanning"
    /\ scan.i < Len(text)
    /\ scan' = ScanStep(scan, text)
    /\ UNCHANGED <<pc, message, user_context, attempts, failures, last_outcome, posted,
                   last_exc, raw, tool_name, parameters, model_params, inferred, error,
                   result, tool_calls, tool_posts, text, embedded>>

\* _extract_first_json on prefix + json.dumps(J) + suffix
InitExtract ==
    /\ pc = "extract_first_json"
    /\ embedded \in JsonObjects
    /\ \E prefix \in Affixes, suffix \in Affixes :
          text = prefix \o Dumps(embedded) \o suffix
    /\ scan = [IdleScan EXCEPT !.status = "scanning"]
    /\ message = <<>>
    /\ user_context = Context(NoValue, NoValue)
    /\ tool_name = ""
    /\ parameters = EmptyParams
    /\ model_params = EmptyParams
    /\ tool_calls = 0
    /\ PipelineIdle

SpecExtract == InitExtract /\ [][ExtractStep]_vars

----------------------------------------------------------------------------
(* _infer_missing_parameters called with every required field missing.     *)

MaxMsgLen == 2

Vocabulary == {"Explain", "what's", "derivatives", "limits", "?"}

LongMessage ==
    <<"I", "keep", "mixing", "up", "limits", "and", "derivatives", "today">>

Messages ==
    BoundedSeq(Vocabulary, MaxMsgLen) \cup PipelineMessages
    \cup {LongMessage,
          <<"need", "help", "with", "limits", "?">>,
          <<"tell", "me", "about", "limits", ",", "what", "is", "calculus">>}

InferContexts ==
    {Context(sm, st) :
        sm \in {<<"L", "v", " ", "3">>, <<"L", "v", " ", "7", ":">>,
                <<"L", "v", " ", "1", "0">>, NoValue},
        st \in Styles \cup {NoValue}}

OptionalValues == {Absent, BoolVal(FALSE), None, StrVal(<<"yes">>)}

\* mappings that hold none of the required fields of the tool
ParamsWithoutRequired(tool) ==
    IF tool = "note_maker"
    THEN {FromPairs(<< <<"include_examples", a>>, <<"include_analogies", b>> >>) :
             a \in OptionalValues, b \in OptionalValues}
    ELSE {FromPairs(<< <<"include_examples", a>> >>) : a \in OptionalValues}

InferMissing ==
    /\ pc = "infer_missing_parameters"
    /\ \E order \in Orders(Required(tool_name)) :
          parameters' = infer_missing_parameters(tool_name, order, message, user_context,
                                                 parameters)
    /\ inferred' = TRUE
    /\ pc' = "inferred"
    /\ UNCHANGED <<message, user_context, attempts, failures, last_outcome, posted,
                   last_exc, raw, tool_name, model_params, error, result, tool_calls,
                   tool_posts, text, embedded, scan>>

InitInfer ==
    /\ pc = "infer_missing_parameters"
    /\ message \in Messages
    /\ user_context \in InferContexts
    /\ tool_name \in Tools
    /\ parameters \in ParamsWithoutRequired(tool_name)
    /\ model_params = parameters
    /\ tool_calls = 0
    /\ text = <<>>
    /\ embedded = NoJson
    /\ scan = IdleScan
    /\ PipelineIdle

SpecInfer == InitInfer /\ [][InferMissing]_vars

----------------------------------------------------------------------------
(* execute_tool called with any tool name.                                 *)

ToolNames == Tools \cup {"quiz_maker"}

ExecParams == NoteMakerParams \cup FlashcardParams \cup ConceptParams

InitExec ==
    /\ pc = "execute_tool"
    /\ tool_name \in ToolNames
    /\ parameters \in ExecParams
    /\ model_params = parameters
    /\ tool_calls = 1
    /\ message = <<>>
    /\ user_context = Context(NoValue, NoValue)
    /\ text = <<>>
    /\ embedded = NoJson
    /\ scan = IdleScan
    /\ PipelineIdle

SpecExec == InitExec /\ [][ExecuteTool]_vars

----------------------------------------------------------------------------
(* The declared contracts, written out independently of TOOL_PARAM_SCHEMAS  *)
(* and of the helpers of the code.                                         *)

RegisteredTools == {"note_maker", "flashcard_generator", "concept_explainer"}

DeclaredKeys(tool) ==
    CASE tool = "note_maker" ->
           {"topic", "subject", "note_taking_style", "include_examples", "include_analogies"}
      [] tool = "flashcard_generator" ->
           {"topic", "count", "difficulty", "include_examples", "subject"}
      [] tool = "concept_explainer" ->
           {"concept_to_explain", "current_topic", "desired_depth", "include_examples"}

IsString(p, k) == k \in DOMAIN p /\ p[k].t = "string"

IsOneOf(p, k, values) == IsString(p, k) /\ p[k].s \in values

OptionalBoolean(p, k) == k \in DOMAIN p => p[k].t = "boolean"

\* every required field is present, of its type, in its enumeration and range
RequiredFieldsConform(tool, p) ==
    CASE tool = "note_maker" ->
           /\ IsString(p, "topic")
           /\ IsString(p, "subject")
           /\ IsOneOf(p, "note_taking_style",
                      {<<"outline">>, <<"bullet_points">>, <<"narrative">>, <<"structured">>})
      [] tool = "flashcard_generator" ->
           /\ IsString(p, "topic")
           /\ IsString(p, "subject")
           /\ "count" \in DOMAIN p /\ p["count"].t = "integer"
           /\ p["count"].n \in 1..20
           /\ IsOneOf(p, "difficulty", {<<"easy">>, <<"medium">>, <<"hard">>})
      [] tool = "concept_explainer" ->
           /\ IsString(p, "concept_to_explain")
           /\ IsString(p, "current_topic")
           /\ IsOneOf(p, "desired_depth",
                      {<<"basic">>, <<"intermediate">>, <<"advanced">>, <<"comprehensive">>})

OptionalFieldsConform(tool, p) ==
    /\ OptionalBoolean(p, "include_examples")
    /\ tool = "note_maker" => OptionalBoolean(p, "include_analogies")

SatisfiesDeclaredSchema(tool, p) ==
    RequiredFieldsConform(tool, p) /\ OptionalFieldsConform(tool, p)

\* execute_tool has been called for this request
Dispatched == tool_calls > 0

----------------------------------------------------------------------------
(* C1: whenever execute_tool is called, the tool is one of the three        *)
(* registered tools and the parameters whose keys its schema declares       *)
(* satisfy the schema (required fields, types, enumerations, count in       *)
(* 1..20), on the path of complete model parameters and on the path where   *)
(* inference filled the missing fields.                                     *)
C1_DispatchedParametersSatisfySchema ==
    Dispatched =>
        /\ tool_name \in RegisteredTools
        /\ SatisfiesDeclaredSchema(tool_name, Restrict(parameters, DeclaredKeys(tool_name)))

\* a flashcard request whose count and difficulty came from inference is at
\* the call of execute_tool
C1_Witness ==
    /\ pc = "execute_tool"
    /\ inferred
    /\ tool_name = "flashcard_generator"
    /\ {"count", "difficulty"} \cap DOMAIN model_params = {}

(* C2: a request that reaches a fatal failure (all attempts failed, no JSON *)
(* object, unknown tool, parameters failing validation before or after      *)
(* inference) ends there in an error, without any call of execute_tool and  *)
(* without any further step; execute_tool is called at most once.           *)
C2_FatalFailureAbortsBeforeDispatch ==
    /\ tool_calls <= 1
    /\ error.kind \in {"MODEL_FAILED", "NO_JSON", "UNKNOWN_TOOL", "VALIDATION_FAILED"} =>
          /\ pc = "failed"
          /\ tool_calls = 0
          /\ tool_posts = <<>>
          /\ result = NoResult
          /\ ~ENABLED Next

\* inference ran and its output still failed validation
C2_Witness ==
    /\ pc = "failed"
    /\ error = Failure("VALIDATION_FAILED", "after inference")
    /\ tool_calls = 0

(* C3: ask_gemini makes at most MAX_RETRIES + 1 attempts, each with the     *)
(* same body; it returns at the first attempt that succeeds and attempts    *)
(* nothing after it; it raises only after MAX_RETRIES + 1 attempts that all *)
(* failed, and the error carries the cause of the last of them.             *)
C3_AskGeminiRetryBudget ==
    /\ attempts <= MAX_RETRIES + 1
    /\ Len(posted) = attempts
    /\ \A i \in DOMAIN posted : posted[i] = Body(Prompt(message, user_context))
    /\ pc = "ask_gemini" => failures = attempts
    /\ (pc = "extract" /\ attempts > 0) =>
          failures = attempts - 1 /\ ~AttemptRaises(last_outcome)
    /\ error.kind = "MODEL_FAILED" =>
          /\ attempts = MAX_RETRIES + 1
          /\ failures = MAX_RETRIES + 1
          /\ AttemptRaises(last_outcome)
          /\ error.cause = Cause(last_outcome)

\* the budget is used up: three attempts, the last one a refused connection
C3_Witness ==
    /\ pc = "failed"
    /\ error = Failure("MODEL_FAILED", "ConnectError")
    /\ attempts = MAX_RETRIES + 1

(* C4: when the one POST to the tool endpoint fails (timeout, connection    *)
(* error, error status, undecodable body), execute_tool does not raise and  *)
(* does not retry: it returns the mock of that tool built from the          *)
(* parameters it was given.                                                 *)
C4_FailedToolCallReturnsMock ==
    (tool_posts # <<>> /\ tool_posts[1] # "ok") =>
        /\ Len(tool_posts) = 1
        /\ pc = "done"
        /\ error = NoError
        /\ result = mock_response(tool_name, parameters)
        /\ result.source = "mock"
        /\ result.tool = tool_name
        /\ tool_name = "flashcard_generator" =>
              /\ result.cards = parameters["count"].n
              /\ result.style = parameters["difficulty"]
              /\ result.topic = parameters["topic"]
        /\ tool_name = "note_maker" =>
              /\ result.style = parameters["note_taking_style"]
              /\ result.topic = parameters["topic"]
        /\ tool_name = "concept_explainer" => result.topic = parameters["concept_to_explain"]

\* a flashcard request whose POST timed out has its mock
C4_Witness ==
    /\ pc = "done"
    /\ tool_posts = <<"TimeoutException">>
    /\ tool_name = "flashcard_generator"
    /\ result.source = "mock"

(* C10 (as claimed): an attempt that receives a success-status response     *)
(* whose envelope lacks candidates[0].content.parts[0].text (a key absent,  *)
(* or the candidates or parts list empty) is not a failure: ask_gemini      *)
(* returns the whole envelope as text, without retrying and without         *)
(* raising.                                                                 *)
C10_MissingPathReturnsEnvelope ==
    (/\ last_outcome.kind = "envelope"
     /\ ~(/\ last_outcome.candidates = "present"
          /\ last_outcome.content = "present"
          /\ last_outcome.parts = "present"
          /\ last_outcome.text = "present")) =>
        /\ pc = "extract"
        /\ raw = [source |-> "dump"]
        /\ failures = attempts - 1
        /\ error = NoError

(* C5 (as claimed): for a text prefix + J + suffix, prefix and suffix       *)
(* without braces and J the serialization of a JSON object (nested objects  *)
(* and string values holding braces included), _extract_first_json returns  *)
(* the parsed value of J and does not raise.                                *)
C5_ExtractReturnsEmbeddedObject ==
    scan.status \in {"returned", "raised"} =>
        scan.status = "returned" /\ scan.value = embedded

(* C6: called with every required field of the tool missing, for any        *)
(* message and user context, _infer_missing_parameters returns a mapping in *)
(* which every required field is present, of its declared type and inside   *)
(* its enumeration and range; it fills fields of the chosen tool only,      *)
(* keeps the keys it was given, and the whole schema holds when the         *)
(* optional fields it was given were booleans or null.                      *)
C6_InferenceSatisfiesSchema ==
    pc = "inferred" =>
        /\ tool_name \in RegisteredTools
        /\ RequiredFieldsConform(tool_name, parameters)
        /\ DOMAIN model_params \subseteq DOMAIN parameters
        /\ DOMAIN parameters \subseteq DeclaredKeys(tool_name)
        /\ (\A k \in DOMAIN model_params : model_params[k].t \in {"boolean", "null"}) =>
              SatisfiesDeclaredSchema(tool_name, parameters)

\* a concept request of a level-10 learner got every required field
C6_Witness ==
    /\ pc = "inferred"
    /\ tool_name = "concept_explainer"
    /\ model_params = EmptyParams
    /\ parameters["desired_depth"] = StrVal(<<"advanced">>)
    /\ parameters["concept_to_explain"] = StrVal(<<"derivatives">>)

\* the mastery level L of a context: the first run of digits of
\* mastery_level_summary, or 4
MasteryLevel(ctx) ==
    LET run == FirstDigitRun(Get(ctx, "mastery_level_summary", <<>>))
    IN  IF run = <<>> THEN 4 ELSE DigitsToInt(run)

AfterDecision == pc \in {"merge_context", "validate_final", "execute_tool", "done"}

(* C7: when the model omits difficulty (flashcard_generator) or             *)
(* desired_depth (concept_explainer), the parameters carry, from the        *)
(* decision to the dispatch, the tier of the mastery level L alone:         *)
(* L <= 3 easy / basic, 4 <= L <= 6 medium / intermediate, L >= 7 hard /    *)
(* advanced; the post-merge defaulting leaves that tier as it is.           *)
C7_TierFollowsMasteryLevel ==
    LET L == MasteryLevel(user_context)
    IN  /\ (/\ AfterDecision
            /\ tool_name = "flashcard_generator"
            /\ "difficulty" \notin DOMAIN model_params) =>
               parameters["difficulty"] =
                   StrVal(IF L <= 3 THEN <<"easy">>
                          ELSE IF L <= 6 THEN <<"medium">> ELSE <<"hard">>)
        /\ (/\ AfterDecision
            /\ tool_name = "concept_explainer"
            /\ "desired_depth" \notin DOMAIN model_params) =>
               parameters["desired_depth"] =
                   StrVal(IF L <= 3 THEN <<"basic">>
                          ELSE IF L <= 6 THEN <<"intermediate">> ELSE <<"advanced">>)

\* a level-7 learner whose summary the post-merge layer reads as level 4 is
\* dispatched the hard tier
C7_Witness ==
    /\ pc = "execute_tool"
    /\ tool_name = "flashcard_generator"
    /\ "difficulty" \notin DOMAIN model_params
    /\ MasteryLevel(user_context) = 7
    /\ defaults_mastery_level(user_context) = 4
    /\ parameters["difficulty"] = StrVal(<<"hard">>)

\* preferred_teaching_style equals "visual" ignoring case
PrefersVisual(ctx) ==
    LET style == Get(ctx, "preferred_teaching_style", <<>>)
    IN  /\ Len(style) = 6
        /\ style[1] \in {"v", "V"} /\ style[2] \in {"i", "I"} /\ style[3] \in {"s", "S"}
        /\ style[4] \in {"u", "U"} /\ style[5] \in {"a", "A"} /\ style[6] \in {"l", "L"}

(* C8 (as claimed): every note_maker request that reaches dispatch has      *)
(* note_taking_style "structured" and include_analogies true when the       *)
(* preferred teaching style is "visual" ignoring case, and "outline" and    *)
(* false for any other style.                                               *)
C8_StyleAlwaysFollowsTeachingStyle ==
    (Dispatched /\ tool_name = "note_maker") =>
        /\ parameters["note_taking_style"] =
              StrVal(IF PrefersVisual(user_context) THEN <<"structured">> ELSE <<"outline">>)
        /\ parameters["include_analogies"] = BoolVal(PrefersVisual(user_context))

(* C8 (amended): in a note_maker request that reaches dispatch, each of     *)
(* note_taking_style and include_analogies that the model's parameters      *)
(* omit follows the preferred teaching style: "structured" and true for     *)
(* "visual" ignoring case, "outline" and false otherwise; a value the model *)
(* supplied is kept.                                                        *)
C8_OmittedStyleFollowsTeachingStyle ==
    (Dispatched /\ tool_name = "note_maker") =>
        /\ "note_taking_style" \notin DOMAIN model_params =>
              parameters["note_taking_style"] =
                  StrVal(IF PrefersVisual(user_context) THEN <<"structured">>
                         ELSE <<"outline">>)
        /\ "include_analogies" \notin DOMAIN model_params =>
              parameters["include_analogies"] = BoolVal(PrefersVisual(user_context))
        /\ ("note_taking_style" \in DOMAIN model_params
            /\ model_params["note_taking_style"] # None) =>
              parameters["note_taking_style"] = model_params["note_taking_style"]
        /\ ("include_analogies" \in DOMAIN model_params
            /\ model_params["include_analogies"] # None) =>
              parameters["include_analogies"] = model_params["include_analogies"]

\* a learner whose style is written "VisuaL" and whose model reply omitted
\* both fields is dispatched structured notes with analogies
C8_Witness ==
    /\ pc = "execute_tool"
    /\ tool_name = "note_maker"
    /\ {"note_taking_style", "include_analogies"} \cap DOMAIN model_params = {}
    /\ Get(user_context, "preferred_teaching_style", <<>>) = <<"V", "i", "s", "u", "a", "L">>
    /\ parameters["note_taking_style"] = StrVal(<<"structured">>)
    /\ parameters["include_analogies"] = BoolVal(TRUE)

\* the call of execute_tool is over
ExecuteToolOver == pc \in {"done", "failed"}

(* C9 (as claimed): when no endpoint is configured for the tool name,       *)
(* execute_tool raises nothing and returns a locally synthesized mock       *)
(* response.                                                                *)
C9_UnconfiguredToolReturnsMock ==
    (ExecuteToolOver /\ tool_name \notin RegisteredTools) =>
        /\ pc = "done"
        /\ error = NoError
        /\ result.source = "mock"

(* C9 (amended): when no endpoint is configured for the tool name,          *)
(* execute_tool raises an error naming the tool; it makes no POST and       *)
(* returns no mock response.                                                *)
C9_UnconfiguredToolRaises ==
    (ExecuteToolOver /\ tool_name \notin RegisteredTools) =>
        /\ pc = "failed"
        /\ error = Failure("NO_ENDPOINT", tool_name)
        /\ tool_posts = <<>>
        /\ result = NoResult

\* execute_tool("quiz_maker", ...) has raised
C9_Witness ==
    /\ pc = "failed"
    /\ tool_name = "quiz_maker"
    /\ error.kind = "NO_ENDPOINT"

----------------------------------------------------------------------------
(* _infer_defaults called with any tool name, user context and mapping.    *)

\* the mappings handed to _infer_defaults: fields it defaults are absent,
\* null, equal to a default or different from every default, with and without
\* the user_info and chat_history that the caller attaches
DefaultsInputs(tool) ==
    LET tool_fields ==
          CASE tool = "flashcard_generator" ->
                 {FromPairs(<< <<"topic", a>>, <<"count", b>>, <<"difficulty", c>> >>) :
                     a \in {Absent, Derivatives},
                     b \in {Absent, IntVal(3), None, StrVal(<<"many">>)},
                     c \in {Absent, StrVal(<<"easy">>), StrVal(<<"hard">>), None}}
            [] tool = "note_maker" ->
                 {FromPairs(<< <<"note_taking_style", a>>, <<"include_examples", b>>,
                               <<"include_analogies", c>> >>) :
                     a \in {Absent, StrVal(<<"bullet_points">>), StrVal(<<"outline">>), None},
                     b \in {Absent, BoolVal(FALSE), None},
                     c \in {Absent, BoolVal(TRUE), BoolVal(FALSE), None}}
            [] OTHER ->
                 {FromPairs(<< <<"desired_depth", a>>, <<"include_examples", b>> >>) :
                     a \in {Absent, StrVal(<<"basic">>), StrVal(<<"advanced">>), None},
                     b \in {Absent, BoolVal(FALSE), None}}
    IN  tool_fields \cup
        {Put(Put(p, "user_info", Object("user_context")), "chat_history",
             Array("chat_history")) : p \in tool_fields}

\* Lines 12-57: params = dict(parameters) is a copy, every write goes to the
\* copy and the copy is returned; the mapping of the caller (model_params)
\* is left as it was handed in.
InferDefaults ==
    /\ pc = "infer_defaults"
    /\ parameters' = infer_defaults(model_params, tool_name, user_context)
    /\ model_params' = model_params
    /\ pc' = "defaults_returned"
    /\ UNCHANGED <<message, user_context, attempts, failures, last_outcome, posted,
                   last_exc, raw, tool_name, inferred, error, result, tool_calls,
                   tool_posts, text, embedded, scan>>

InitDefaults ==
    /\ pc = "infer_defaults"
    /\ tool_name \in ToolNames
    /\ user_context \in Contexts
    /\ model_params \in DefaultsInputs(tool_name)
    /\ parameters = EmptyParams
    /\ tool_calls = 0
    /\ message = <<>>
    /\ text = <<>>
    /\ embedded = NoJson
    /\ scan = IdleScan
    /\ PipelineIdle

SpecDefaults == InitDefaults /\ [][InferDefaults]_vars

\* the fields that the schema of the tool declares; none for a tool without one
SchemaFields(tool) == IF tool \in RegisteredTools THEN DeclaredKeys(tool) ELSE {}

(* C11: _infer_defaults only adds keys: for every tool, user context and    *)
(* input mapping, the output holds every key of the input, every key of a   *)
(* tool-schema field that the input holds keeps exactly its input value,    *)
(* and the input mapping is the same after the call as before it.           *)
C11_DefaultsOnlyAddKeys ==
    [][pc = "infer_defaults" =>
          /\ pc' = "defaults_returned"
          /\ model_params' = model_params
          /\ DOMAIN model_params \subseteq DOMAIN parameters'
          /\ \A k \in DOMAIN model_params \cap SchemaFields(tool_name) :
                parameters'[k] = model_params[k]]_vars

\* a flashcard request that came with count 3 and a null difficulty, for a
\* learner of level 7: both are returned as they came and nothing else of the
\* input changed, although the defaults are 5 and "hard"
C11_Witness ==
    /\ pc = "defaults_returned"
    /\ tool_name = "flashcard_generator"
    /\ Get(user_context, "mastery_level_summary", <<>>) = <<"L", "v", " ", "7">>
    /\ Get(model_params, "count", Absent) = IntVal(3)
    /\ Get(model_params, "difficulty", Absent) = None
    /\ Get(parameters, "count", Absent) = IntVal(3)
    /\ Get(parameters, "difficulty", Absent) = None

====
